---- MODULE Spec2Model ----
(***************************************************************************)
(* Model of the WHOOP training planner: the Signal Aggregator and the      *)
(* Recommendation Engine of training_planner.py and the Workout Plan       *)
(* Generator of workout_generator.py.                                      *)
(*                                                                         *)
(* Conventions.  A Python dict is a record whose fields are optional       *)
(* values: Missing (the key is absent), None (the key is present with the  *)
(* value None) or Val(x).  Times are whole hours since an epoch; a         *)
(* timestamp is the pair of its local date-time text (as hours) and its    *)
(* UTC-offset notation.  A call that raises yields a record with status    *)
(* "raised".  Emoji that open a guidance string are kept as its marker.    *)
(***************************************************************************)
EXTENDS Integers, Sequences, FiniteSets, TLC

VARIABLES
    recovery,            \* what client.get_latest_recovery() returns
    sleep,               \* what client.get_latest_sleep() returns
    cycles,              \* what client.get_cycles(...) returns
    workouts,            \* what client.get_recent_workouts(...) returns
    now,                 \* the clock read by datetime.now(), in hours
    recommendation,      \* outcome of the latest get_todays_recommendation()
    previous,            \* outcome of the call before the latest one
    called_at,           \* the clock readings of these two calls, the latest first
    workout_categories,  \* local workout_categories of the latest call
    args,                \* arguments of the pending generate_day_plan call
    plan,                \* outcome of the latest generate_day_plan call
    catalogs,            \* the four catalog tables of class WorkoutGenerator
    generated,           \* outcome of the latest direct generate_workout call
    current_workouts,    \* the module global _current_workouts of app.py
    response             \* what the latest dashboard route returned

vars == << recovery, sleep, cycles, workouts, now, recommendation, previous, called_at,
           workout_categories, args, plan, catalogs, generated, current_workouts, response >>

provider == << recovery, sleep, cycles, workouts >>

----------------------------------------------------------------------------
(* Optional values and Python truthiness                                   *)

Missing == [kind |-> "missing"]
None == [kind |-> "None"]
Val(x) == [kind |-> "val", val |-> x]

\* d.get(k)
dict_get(field) == IF field.kind = "missing" THEN None ELSE field

\* d.get(k, default)
dict_get_default(field, default) == IF field.kind = "missing" THEN default ELSE field

\* bool(x) for a number or None
TruthyNum(o) == o.kind = "val" /\ o.val # 0

\* bool(x) for a flag or None
TruthyFlag(o) == o.kind = "val" /\ o.val = TRUE

\* bool(d) for a dict or None: a dict is true when it has a key
TruthyDict(o) == o.kind = "val" /\ \E f \in DOMAIN o.val : o.val[f].kind # "missing"

Raised(e) == [status |-> "raised", error |-> e]
Returned(v) == [status |-> "ok", value |-> v]

RECURSIVE SumSeq(_)
SumSeq(s) == IF s = << >> THEN 0 ELSE Head(s) + SumSeq(Tail(s))

----------------------------------------------------------------------------
(* Text: str.lower() and the substring test `k in sport`                   *)

UpperToLower ==
    [c \in {"A","B","C","D","E","F","G","H","I","J","K","L","M","N","O","P","Q","R","S","T","U","V","W","X","Y","Z"} |->
        CASE c = "A" -> "a"
          [] c = "B" -> "b"
          [] c = "C" -> "c"
          [] c = "D" -> "d"
          [] c = "E" -> "e"
          [] c = "F" -> "f"
          [] c = "G" -> "g"
          [] c = "H" -> "h"
          [] c = "I" -> "i"
          [] c = "J" -> "j"
          [] c = "K" -> "k"
          [] c = "L" -> "l"
          [] c = "M" -> "m"
          [] c = "N" -> "n"
          [] c = "O" -> "o"
          [] c = "P" -> "p"
          [] c = "Q" -> "q"
          [] c = "R" -> "r"
          [] c = "S" -> "s"
          [] c = "T" -> "t"
          [] c = "U" -> "u"
          [] c = "V" -> "v"
          [] c = "W" -> "w"
          [] c = "X" -> "x"
          [] c = "Y" -> "y"
          [] c = "Z" -> "z"]

climbing_keywords ==
    << <<"c","l","i","m","b","i","n","g">>,
       <<"b","o","u","l","d","e","r","i","n","g">>,
       <<"r","o","c","k"," ","c","l","i","m","b","i","n","g">>,
       <<"l","e","a","d"," ","c","l","i","m","b","i","n","g">> >>

running_keywords ==
    << <<"r","u","n","n","i","n","g">>,
       <<"r","u","n">>,
       <<"j","o","g","g","i","n","g">>,
       <<"t","r","a","i","l"," ","r","u","n","n","i","n","g">>,
       <<"t","r","e","a","d","m","i","l","l">> >>

gym_keywords ==
    << <<"f","u","n","c","t","i","o","n","a","l"," ","f","i","t","n","e","s","s">>,
       <<"w","e","i","g","h","t","l","i","f","t","i","n","g">>,
       <<"s","t","r","e","n","g","t","h"," ","t","r","a","i","n","i","n","g">>,
       <<"c","r","o","s","s","f","i","t">>,
       <<"g","y","m">>,
       <<"w","e","i","g","h","t"," ","t","r","a","i","n","i","n","g">> >>

sauna_keywords ==
    << <<"s","a","u","n","a">>,
       <<"s","t","e","a","m"," ","r","o","o","m">>,
       <<"h","o","t"," ","t","u","b">> >>

BoulderingRunClub == <<"B","o","u","l","d","e","r","i","n","g"," ","R","u","n"," ","C","l","u","b">>
RockClimbing == <<"R","o","c","k"," ","C","l","i","m","b","i","n","g">>
TrailRunning == <<"T","r","a","i","l"," ","R","u","n","n","i","n","g">>
GymSauna == <<"G","y","m"," ","S","a","u","n","a">>
TreadmillCrossfit == <<"T","r","e","a","d","m","i","l","l"," ","C","r","o","s","s","F","i","t">>
SaunaName == <<"S","a","u","n","a">>
Yoga == <<"Y","o","g","a">>
HotTubClimbing == <<"H","o","t"," ","T","u","b"," ","C","l","i","m","b","i","n","g">>
Weightlifting == <<"W","e","i","g","h","t","l","i","f","t","i","n","g">>
\* str.lower(), character by character
lower(s) == [i \in 1..Len(s) |-> IF s[i] \in DOMAIN UpperToLower THEN UpperToLower[s[i]] ELSE s[i]]

\* k in sport
contains(sport, k) ==
    \E i \in 1..(Len(sport) - Len(k) + 1) : SubSeq(sport, i, i + Len(k) - 1) = k

\* any(k in sport for k in keywords)
any_keyword(sport, keywords) == \E j \in 1..Len(keywords) : contains(sport, keywords[j])

----------------------------------------------------------------------------
(* Signal Aggregator (training_planner.py)                                 *)

\* the filter of the comprehension in _get_recent_strain
cycle_is_scored(c) == c.score_state = Val("SCORED") /\ TruthyDict(dict_get(c.score))

\* _get_recent_strain: c["score"]["strain"] raises KeyError on a missing key
get_recent_strain(cs) ==
    LET scored == SelectSeq(cs, cycle_is_scored)
        strain_of(c) == c.score.val.strain.val
    IN  IF \E i \in 1..Len(scored) : scored[i].score.val.strain.kind = "missing"
        THEN Raised("KeyError")
        ELSE Returned([i \in 1..Len(scored) |-> strain_of(scored[i])])

\* the `continue` test without the test of score_state
workout_is_skipped_by_score_only(w) == ~TruthyDict(dict_get(w.score))

\* the `continue` test of _get_workouts_by_type
workout_is_skipped(w) == w.score_state # Val("SCORED") \/ ~TruthyDict(dict_get(w.score))

\* the chain with the running test ahead of the climbing test
category_of_running_first(sport) ==
    IF any_keyword(sport, running_keywords) THEN "running"
    ELSE IF any_keyword(sport, climbing_keywords) THEN "climbing"
    ELSE IF any_keyword(sport, gym_keywords) THEN "gym"
    ELSE IF any_keyword(sport, sauna_keywords) THEN "sauna"
    ELSE "other"

\* the if/elif chain of _get_workouts_by_type over the lower-cased sport name
category_of(sport) ==
    IF any_keyword(sport, climbing_keywords) THEN "climbing"
    ELSE IF any_keyword(sport, running_keywords) THEN "running"
    ELSE IF any_keyword(sport, gym_keywords) THEN "gym"
    ELSE IF any_keyword(sport, sauna_keywords) THEN "sauna"
    ELSE "other"

\* sport = w.get("sport_name", "").lower(), for a name that is not None
sport_of(w) == lower(dict_get_default(w.sport_name, Val(<< >>)).val)

\* the dict appended to a category
workout_data(w) ==
    [ date   |-> dict_get(w.start),
      strain |-> dict_get_default(w.score.val.strain, Val(0)),
      sport  |-> dict_get(w.sport_name) ]

Categories == {"climbing", "running", "gym", "sauna", "other"}

\* the entries of data from index i on whose category is c, in order
RECURSIVE select_at(_, _, _, _)
select_at(data, category, c, i) ==
    IF i > Len(data) THEN << >>
    ELSE (IF category[i] = c THEN << data[i] >> ELSE << >>)
         \o select_at(data, category, c, i + 1)

\* _get_workouts_by_type: None.lower() raises AttributeError
get_workouts_by_type(ws) ==
    LET kept(w) == ~workout_is_skipped(w)
        scored == SelectSeq(ws, kept)
    IN  IF \E i \in 1..Len(scored) : scored[i].sport_name.kind = "None"
        THEN Raised("AttributeError")
        ELSE LET category == [i \in 1..Len(scored) |-> category_of(sport_of(scored[i]))]
                 data == [i \in 1..Len(scored) |-> workout_data(scored[i])]
             IN  Returned([c \in Categories |->
                     select_at(data, category, c, 1)])

\* the UTC-offset notations a timestamp text can end with, in the order of
\* their text ('+' < '-' < 'Z')
TzNotations == << "+02:00", "-05:00", "Z" >>

tz_rank(tz) == CHOOSE i \in 1..Len(TzNotations) : TzNotations[i] = tz

\* text order of two timestamps of the same layout: a < b as Python strings
str_less(a, b) == a.local < b.local \/ (a.local = b.local /\ tz_rank(a.tz) < tz_rank(b.tz))

\* text.replace("Z", "+00:00")
replace_Z(tz) == IF tz = "Z" THEN "+00:00" ELSE tz

\* the offset datetime.fromisoformat reads, in hours
utcoffset(tz) == CASE tz = "+00:00" -> 0 [] tz = "+02:00" -> 2 [] tz = "-05:00" -> 0 - 5

\* datetime.fromisoformat(text.replace("Z", "+00:00")) as an instant
fromisoformat(start) == start.local - utcoffset(replace_Z(start.tz))

HoursPerDay == 24

\* (datetime.now(tz) - date).days: timedelta.days rounds towards minus infinity
days_between(t, date) == (t - date) \div HoursPerDay

\* max(climbing, key=lambda x: x["date"]): the first element with the greatest key
max_by_date(climbing) ==
    LET is_max(i) == \A j \in 1..Len(climbing) : ~str_less(climbing[i].date.val, climbing[j].date.val)
        first == CHOOSE i \in 1..Len(climbing) : is_max(i) /\ \A j \in 1..(i - 1) : ~is_max(j)
    IN  climbing[first]

NoRecentClimbing == 999

\* _days_since_climbing: comparing or parsing a None date raises
days_since_climbing(categories, t) ==
    LET climbing == categories["climbing"]
    IN  IF climbing = << >> THEN Returned(NoRecentClimbing)
        ELSE IF \E i \in 1..Len(climbing) : climbing[i].date.kind = "None"
        THEN Raised(IF Len(climbing) = 1 THEN "AttributeError" ELSE "TypeError")
        ELSE Returned(days_between(t, fromisoformat(max_by_date(climbing).date.val)))

\* _climbing_load_7d: sum() over a None strain raises TypeError
climbing_load_7d(categories) ==
    LET climbing == categories["climbing"]
        strain_of(c) == c.strain.val
    IN  IF \E i \in 1..Len(climbing) : climbing[i].strain.kind = "None"
        THEN Raised("TypeError")
        ELSE Returned(<< Len(climbing), SumSeq([i \in 1..Len(climbing) |-> strain_of(climbing[i])]) >>)

----------------------------------------------------------------------------
(* Recommendation Engine (training_planner.py)                             *)

\* a guidance string: its leading emoji, if any, and the text after it
G(marker, text) == [marker |-> marker, text |-> text]

\* f"{x:.0f}" and f"{x:.1f}" of a whole number
fmt0(x) == ToString(x)
fmt1(x) == ToString(x) \o ".0"

\* the list of the call before, kept instead of a new one
new_reasoning_shared == IF recommendation.status = "ok" THEN recommendation.reasoning ELSE << >>

\* reasoning = [] and warnings = [] at the start of every call
new_reasoning == << >>
new_warnings == << >>

\* a dict without keys, the default of recovery.get("score", {})
empty_recovery_score ==
    [ recovery_score |-> Missing, hrv_rmssd_milli |-> Missing,
      resting_heart_rate |-> Missing, user_calibrating |-> Missing ]

empty_sleep_score == [ sleep_performance_percentage |-> Missing ]

has_scored_state(r) == TruthyDict(r) /\ r.val.score_state = Val("SCORED")

\* Recovery Score Analysis: None.get raises AttributeError
recovery_analysis(r, warnings) ==
    IF ~has_scored_state(r)
    THEN Returned([recovery_score |-> None, hrv |-> None, rhr |-> None, warnings |-> warnings])
    ELSE LET score == dict_get_default(r.val.score, Val(empty_recovery_score))
         IN  IF score.kind = "None" THEN Raised("AttributeError")
             ELSE Returned(
                 [ recovery_score |-> dict_get(score.val.recovery_score),
                   hrv            |-> dict_get(score.val.hrv_rmssd_milli),
                   rhr            |-> dict_get(score.val.resting_heart_rate),
                   warnings       |->
                       IF TruthyFlag(dict_get(score.val.user_calibrating))
                       THEN Append(warnings, "WHOOP is still calibrating - recommendations may be less accurate")
                       ELSE warnings ])

\* Sleep Quality Analysis
sleep_analysis(s) ==
    IF ~has_scored_state(s) THEN Returned(None)
    ELSE LET score == dict_get_default(s.val.score, Val(empty_sleep_score))
         IN  IF score.kind = "None" THEN Raised("AttributeError")
             ELSE Returned(dict_get(score.val.sleep_performance_percentage))

\* the green test with the threshold itself left out
is_green_above(recovery_score) == recovery_score > 67

\* the rest test with a lower threshold
is_very_low_below_10(recovery_score) == recovery_score < 10

\* the rest test with the threshold itself included
is_very_low_through_20(recovery_score) == recovery_score <= 20

\* the tier tests of the decision logic
is_green(recovery_score) == recovery_score >= 67
is_yellow(recovery_score) == recovery_score >= 34
is_very_low(recovery_score) == recovery_score < 20

\* the green branch for a session on the same day never taken
climbed_today_never(days_since_climb) == FALSE

\* the weekly volume counted as high from the fifth session on
high_weekly_volume_above_4(climb_count) == climb_count > 4

\* a session on the day before not counted as recent
climbed_recently_today_only(days_since_climb) == days_since_climb < 1

\* the tests of the branches inside the green and the yellow zone
climbed_today(days_since_climb) == days_since_climb = 0
high_weekly_volume(climb_count) == climb_count >= 4
climbed_recently(days_since_climb) == days_since_climb <= 1

\* if sleep_performance and sleep_performance < 70
sleep_is_poor(sleep_performance) == TruthyNum(sleep_performance) /\ sleep_performance.val < 70

Unassigned == G("", "<unassigned>")

\* the fallback with the targets of a moderate yellow day
unknown_recovery_as_yellow(reasoning, warnings) ==
    [ intensity     |-> "moderate",
      strain_target |-> << 10, 14 >>,
      reasoning     |-> Append(reasoning, "No recovery data - defaulting to moderate"),
      climbing      |-> G("", "Moderate routes, focus on technique"),
      running       |-> G("", "Easy to moderate pace"),
      gym           |-> G("", "Regular session"),
      sauna         |-> G("", "Optional"),
      warnings      |-> warnings ]

\* if recovery_score is None
unknown_recovery(reasoning, warnings) ==
    [ intensity     |-> "moderate",
      strain_target |-> << 8, 12 >>,
      reasoning     |-> Append(reasoning, "No recovery data - defaulting to moderate"),
      climbing      |-> G("", "Moderate routes, focus on technique"),
      running       |-> G("", "Easy to moderate pace"),
      gym           |-> G("", "Regular session"),
      sauna         |-> G("", "Optional"),
      warnings      |-> warnings ]

\* GREEN ZONE
green_zone(recovery_score, days_since_climb, climb_count, reasoning, warnings) ==
    LET r1 == Append(reasoning, "Recovery " \o fmt0(recovery_score) \o "% (green) - body is ready")
    IN  IF climbed_today(days_since_climb) THEN
            [ intensity     |-> "moderate",
              strain_target |-> << 10, 14 >>,
              climbing      |-> G("warning", "Rest fingers - climbed recently. Light hangboard at most"),
              running       |-> G("", "Good day for a harder run"),
              gym           |-> G("", "Upper body might be fatigued - focus on legs/cardio"),
              reasoning     |-> Append(r1, "Climbed recently - prioritize finger recovery"),
              sauna         |-> Unassigned,
              warnings      |-> warnings ]
        ELSE IF days_since_climb = 1 THEN
            [ intensity     |-> "moderate",
              strain_target |-> << 10, 14 >>,
              climbing      |-> G("", "Easy climbing OK if fingers feel good, no projecting"),
              running       |-> G("", "Moderate to hard effort OK"),
              gym           |-> G("", "Full session OK"),
              reasoning     |-> Append(r1, "1 day since climbing - fingers still recovering"),
              sauna         |-> Unassigned,
              warnings      |-> warnings ]
        ELSE IF high_weekly_volume(climb_count) THEN
            [ intensity     |-> "moderate",
              strain_target |-> << 10, 14 >>,
              climbing      |-> G("", "Consider rest day from climbing - high weekly volume"),
              running       |-> G("", "Good alternative - run or gym"),
              gym           |-> G("", "Good option today"),
              reasoning     |-> r1,
              sauna         |-> Unassigned,
              warnings      |-> Append(warnings, "Already " \o ToString(climb_count)
                                          \o " climbing sessions this week - watch for overuse") ]
        ELSE
            [ intensity     |-> "hard",
              strain_target |-> << 14, 18 >>,
              climbing      |-> G("fire", "Project day - send something hard"),
              running       |-> G("", "Intervals or long run"),
              gym           |-> G("", "Heavy session OK"),
              reasoning     |-> Append(r1, ToString(days_since_climb)
                                          \o " days rest from climbing - fresh for hard session"),
              sauna         |-> Unassigned,
              warnings      |-> warnings ]

\* YELLOW ZONE
yellow_zone(recovery_score, sleep_performance, days_since_climb, reasoning, warnings) ==
    LET r1 == Append(reasoning, "Recovery " \o fmt0(recovery_score) \o "% (yellow) - moderate readiness")
        base ==
            IF climbed_recently(days_since_climb) THEN
                [ intensity     |-> "easy",
                  strain_target |-> << 6, 10 >>,
                  climbing      |-> G("", "Rest from climbing today"),
                  running       |-> G("", "Easy jog only"),
                  gym           |-> G("", "Light session or skip"),
                  sauna         |-> G("", "Good recovery option"),
                  reasoning     |-> r1,
                  warnings      |-> warnings ]
            ELSE
                [ intensity     |-> "moderate",
                  strain_target |-> << 10, 14 >>,
                  climbing      |-> G("", "Moderate routes - volume over intensity"),
                  running       |-> G("", "Steady state, nothing too hard"),
                  gym           |-> G("", "Normal session, moderate weights"),
                  sauna         |-> Unassigned,
                  reasoning     |-> r1,
                  warnings      |-> warnings ]
    IN  IF sleep_is_poor(sleep_performance) THEN
            [ base EXCEPT
                !.intensity     = "easy",
                !.strain_target = << 6, 10 >>,
                !.reasoning     = Append(r1, "Sleep only " \o fmt0(sleep_performance.val) \o "% - take it easier"),
                !.climbing      = G("", "Easy climbing or rest"),
                !.running       = G("", "Easy jog or walk") ]
        ELSE base

\* RED ZONE
red_zone(recovery_score, reasoning, warnings) ==
    LET r1 == Append(reasoning, "Recovery " \o fmt0(recovery_score) \o "% (red) - prioritize recovery")
    IN  IF is_very_low(recovery_score) THEN
            [ intensity     |-> "rest",
              strain_target |-> << 0, 5 >>,
              climbing      |-> G("cross", "No climbing"),
              running       |-> G("cross", "No running"),
              gym           |-> G("cross", "Rest day"),
              sauna         |-> G("check", "Light sauna for recovery"),
              reasoning     |-> r1,
              warnings      |-> Append(warnings, "Very low recovery - check if you're getting sick or overstressed") ]
        ELSE
            [ intensity     |-> "easy",
              strain_target |-> << 4, 8 >>,
              climbing      |-> G("cross", "Skip climbing - fingers need recovery too"),
              running       |-> G("", "Light walk at most"),
              gym           |-> G("", "Skip or very light mobility work"),
              sauna         |-> G("check", "Good for recovery"),
              reasoning     |-> r1,
              warnings      |-> warnings ]

\* Decision Logic: the if/elif chain over recovery_score
decision(recovery_score, sleep_performance, days_since_climb, climb_count, reasoning, warnings) ==
    IF recovery_score.kind = "None" THEN unknown_recovery(reasoning, warnings)
    ELSE IF is_green(recovery_score.val)
    THEN green_zone(recovery_score.val, days_since_climb, climb_count, reasoning, warnings)
    ELSE IF is_yellow(recovery_score.val)
    THEN yellow_zone(recovery_score.val, sleep_performance, days_since_climb, reasoning, warnings)
    ELSE red_zone(recovery_score.val, reasoning, warnings)

\* the sauna guidance with the optional text on easy days too
sauna_for_rest_only(intensity) ==
    IF intensity = "rest" THEN G("check", "Sauna is a good option for recovery")
    ELSE IF intensity \in {"easy", "moderate"} THEN G("", "Optional - fine if you want it")
    ELSE G("", "Skip or do post-workout only")

\* Set sauna recommendation based on intensity
sauna_for(intensity) ==
    IF intensity \in {"rest", "easy"} THEN G("check", "Sauna is a good option for recovery")
    ELSE IF intensity = "moderate" THEN G("", "Optional - fine if you want it")
    ELSE G("", "Skip or do post-workout only")

\* the metrics with the resting heart rate entered before the HRV
add_metrics_rhr_first(reasoning, hrv, rhr, climb_count, climb_strain) ==
    LET r1 == IF TruthyNum(rhr) THEN Append(reasoning, "Resting HR: " \o fmt0(rhr.val) \o "bpm") ELSE reasoning
        r2 == IF TruthyNum(hrv) THEN Append(r1, "HRV: " \o fmt1(hrv.val) \o "ms") ELSE r1
    IN  Append(r2, "7-day climbing: " \o ToString(climb_count) \o " sessions, "
                   \o fmt1(climb_strain) \o " total strain")

\* Add metrics
add_metrics(reasoning, hrv, rhr, climb_count, climb_strain) ==
    LET r1 == IF TruthyNum(hrv) THEN Append(reasoning, "HRV: " \o fmt1(hrv.val) \o "ms") ELSE reasoning
        r2 == IF TruthyNum(rhr) THEN Append(r1, "Resting HR: " \o fmt0(rhr.val) \o "bpm") ELSE r1
    IN  Append(r2, "7-day climbing: " \o ToString(climb_count) \o " sessions, "
                   \o fmt1(climb_strain) \o " total strain")

\* get_todays_recommendation, after the provider calls returned r, s, cs and ws
\* and with the clock reading t
get_todays_recommendation(r, s, cs, ws, t) ==
    LET recent_strain == get_recent_strain(cs)
        categories == get_workouts_by_type(ws)
        rec == recovery_analysis(r, new_warnings)
        slp == sleep_analysis(s)
        days == days_since_climbing(categories.value, t)
        load == climbing_load_7d(categories.value)
        \* Strain Accumulation: computed, and used by nothing that is returned
        avg_strain == IF recent_strain.value # << >>
                      THEN << SumSeq(recent_strain.value), Len(recent_strain.value) >> ELSE << 0, 1 >>
        high_strain_days == Cardinality({i \in 1..Len(recent_strain.value) : recent_strain.value[i] > 14})
        d == decision(rec.value.recovery_score, slp.value, days.value, load.value[1],
                      new_reasoning, rec.value.warnings)
    IN  IF recent_strain.status = "raised" THEN recent_strain
        ELSE IF categories.status = "raised" THEN categories
        ELSE IF rec.status = "raised" THEN rec
        ELSE IF slp.status = "raised" THEN slp
        ELSE IF days.status = "raised" THEN days
        ELSE IF load.status = "raised" THEN load
        ELSE [ status        |-> "ok",
               intensity     |-> d.intensity,
               strain_target |-> d.strain_target,
               reasoning     |-> add_metrics(d.reasoning, rec.value.hrv, rec.value.rhr,
                                             load.value[1], load.value[2]),
               climbing      |-> d.climbing,
               running       |-> d.running,
               gym           |-> d.gym,
               sauna         |-> sauna_for(d.intensity),
               warnings      |-> d.warnings ]

----------------------------------------------------------------------------
(* Workout Plan Generator (workout_generator.py)                           *)

CLIMBING_WORKOUTS ==
    [ rest |-> << >>,
      easy |-> <<
          [ title       |-> "Easy Climbing + Finger Maintenance",
            duration    |-> 60,
            description |-> "Light session with low-intensity finger work",
            details     |-> << "Warm up: 15 min easy traversing",
                               "Hangboard: 3x10s half crimp @ bodyweight",
                               "Climb 2-3 grades below max",
                               "Focus on open-hand grip on easy holds",
                               "Finger rolls with light weight: 3x15",
                               "Cool down: Finger stretches + rice bucket" >>,
            strain      |-> << 5, 8 >> ],
          [ title       |-> "Volume Session - Grip Endurance",
            duration    |-> 75,
            description |-> "High volume for finger stamina",
            details     |-> << "Warm up: 10 min + progressive hangs",
                               "Climb 15-20 easy problems focusing on grip",
                               "Vary grip types: open, half crimp, pinch",
                               "Repeaters: 7s on/3s off x6 (half crimp)",
                               "Rest 3 min, repeat 2-3 sets",
                               "Cool down: Reverse wrist curls + stretching" >>,
            strain      |-> << 6, 9 >> ] >>,
      moderate |-> <<
          [ title       |-> "Hangboard - Repeaters Protocol",
            duration    |-> 90,
            description |-> "Build finger endurance with repeaters",
            details     |-> << "Warm up: 20 min climbing + progressive hangs",
                               "Repeaters: 7s on/3s off x6 reps per set",
                               "4-6 sets on 20mm edge (half crimp)",
                               "2-3 sets on slopers or pinch block",
                               "3 min rest between sets",
                               "Finish with easy climbing: 15-20 min" >>,
            strain      |-> << 10, 13 >> ],
          [ title       |-> "Finger Strength + Crimpy Problems",
            duration    |-> 90,
            description |-> "Target crimp strength on small holds",
            details     |-> << "Warm up: 15 min easy + finger prep",
                               "Max hangs: 10s x5 on 18-20mm edge",
                               "Add weight if >15s feels easy",
                               "Rest 3 min between hangs",
                               "Climb: Seek out crimpy problems at moderate grade",
                               "Pinch block: 3x10s max effort holds",
                               "Cool down: Antagonist + finger stretches" >>,
            strain      |-> << 9, 12 >> ],
          [ title       |-> "Open Hand + Sloper Training",
            duration    |-> 75,
            description |-> "Build open-hand and sloper strength",
            details     |-> << "Warm up: 20 min progressive",
                               "Open hand hangs: 10s x5 on 35 deg sloper",
                               "Sloper problems: Focus on body tension",
                               "Pinch training: 3x8s each hand",
                               "Compression drills on steep terrain",
                               "Cool down: Wrist curls + finger extensions" >>,
            strain      |-> << 8, 11 >> ] >>,
      hard |-> <<
          [ title       |-> "Max Hangs - Strength Protocol",
            duration    |-> 90,
            description |-> "Maximum finger recruitment for strength gains",
            details     |-> << "Extended warm up: 30 min climbing + hangs",
                               "Max hangs: 10s x5-6 on 18mm edge",
                               "Add weight until 10s is near-max effort",
                               "Full rest: 3-5 min between hangs",
                               "Vary grips: Half crimp -> Full crimp -> 3-finger drag",
                               "One-arm progressions if strong enough",
                               "Total finger time: ~60-90s hard effort" >>,
            strain      |-> << 12, 15 >> ],
          [ title       |-> "Limit Bouldering + Finger Power",
            duration    |-> 120,
            description |-> "Maximum power on small holds",
            details     |-> << "Warm up: 30 min including progressive hangs",
                               "Max hangs: 5s x4 heavy (near 1RM)",
                               "Limit boulders: Focus on hard finger moves",
                               "Seek out crimpy crux sequences",
                               "Full recovery between attempts (4-5 min)",
                               "Campus board: Ladders on small rungs (optional)",
                               "Stop when power drops" >>,
            strain      |-> << 14, 17 >> ],
          [ title       |-> "One-Arm Progressions",
            duration    |-> 75,
            description |-> "Advanced finger strength development",
            details     |-> << "Warm up: 25 min + two-arm max hangs",
                               "One-arm hangs: Assisted with pulley",
                               "5s x3 each hand on 20mm",
                               "Reduce assistance progressively",
                               "Min edge hangs: Find your limit edge",
                               "Offset hangs: 70/30 weight distribution",
                               "Cool down: Easy climbing + stretching" >>,
            strain      |-> << 13, 16 >> ] >> ]

RUNNING_WORKOUTS ==
    [ rest |-> << >>,
      easy |-> <<
          [ title       |-> "Recovery Run",
            duration    |-> 25,
            description |-> "Very easy conversational pace",
            details     |-> << "Zone 1-2 heart rate only",
                               "Should feel effortless",
                               "Can hold full conversation",
                               "Walk breaks are fine",
                               "Focus on relaxed form" >>,
            strain      |-> << 4, 6 >> ],
          [ title       |-> "Easy Jog + Mobility",
            duration    |-> 35,
            description |-> "Light run followed by stretching",
            details     |-> << "20 min easy jog (Zone 2)",
                               "15 min dynamic stretching",
                               "Hip circles, leg swings, lunges",
                               "Good option post-climbing" >>,
            strain      |-> << 5, 7 >> ] >>,
      moderate |-> <<
          [ title       |-> "Steady State Run",
            duration    |-> 45,
            description |-> "Moderate aerobic effort",
            details     |-> << "5 min warm up walk/jog",
                               "35 min Zone 3 steady",
                               "Comfortably hard - short sentences",
                               "5 min cool down",
                               "Focus on consistent pace" >>,
            strain      |-> << 9, 12 >> ],
          [ title       |-> "Fartlek Run",
            duration    |-> 40,
            description |-> "Unstructured speed play",
            details     |-> << "10 min easy warm up",
                               "20 min fartlek: alternate fast/easy",
                               "Fast segments: 30 sec - 2 min",
                               "Easy segments: equal or longer recovery",
                               "10 min easy cool down" >>,
            strain      |-> << 10, 13 >> ] >>,
      hard |-> <<
          [ title       |-> "Interval Session",
            duration    |-> 50,
            description |-> "Structured high-intensity intervals",
            details     |-> << "15 min progressive warm up",
                               "5x 3 min hard (Zone 4-5)",
                               "2 min easy jog between",
                               "10 min cool down jog",
                               "Focus on consistent effort each rep" >>,
            strain      |-> << 13, 16 >> ],
          [ title       |-> "Tempo Run",
            duration    |-> 55,
            description |-> "Sustained threshold effort",
            details     |-> << "15 min easy warm up",
                               "25 min tempo (Zone 4)",
                               "Comfortably uncomfortable pace",
                               "15 min easy cool down",
                               "No talking during tempo block" >>,
            strain      |-> << 14, 17 >> ] >> ]

GYM_WORKOUTS ==
    [ rest |-> << >>,
      easy |-> <<
          [ title       |-> "Mobility & Core",
            duration    |-> 40,
            description |-> "Active recovery focused on movement quality",
            details     |-> << "15 min foam rolling / stretching",
                               "Core circuit: 3 rounds",
                               "- Plank 30 sec",
                               "- Dead bug 10 each side",
                               "- Bird dog 10 each side",
                               "15 min yoga flow or stretching" >>,
            strain      |-> << 3, 5 >> ] >>,
      moderate |-> <<
          [ title       |-> "Full Body - Moderate",
            duration    |-> 60,
            description |-> "Balanced strength session",
            details     |-> << "Warm up: 10 min cardio + dynamic stretches",
                               "Squats or Lunges: 3x10",
                               "Push (bench/press): 3x10",
                               "Pull (rows/pullups): 3x10",
                               "Core: 2x15 each",
                               "Cool down stretching" >>,
            strain      |-> << 9, 12 >> ],
          [ title       |-> "Climbing Antagonists",
            duration    |-> 50,
            description |-> "Balance out climbing muscle imbalances",
            details     |-> << "Push focus to balance all the pulling",
                               "Push ups: 3x15",
                               "Shoulder press: 3x12",
                               "Tricep dips: 3x12",
                               "Reverse wrist curls: 3x15",
                               "External rotation: 3x12 each" >>,
            strain      |-> << 7, 10 >> ] >>,
      hard |-> <<
          [ title       |-> "Strength Session - Heavy",
            duration    |-> 75,
            description |-> "Compound lifts at high intensity",
            details     |-> << "Warm up: 15 min progressive",
                               "Squat/Deadlift: 5x5 heavy",
                               "Bench/OHP: 4x6",
                               "Pull ups weighted: 4x6",
                               "Accessories: 2-3 exercises",
                               "Rest 2-3 min between heavy sets" >>,
            strain      |-> << 12, 15 >> ] >> ]

SAUNA_WORKOUTS ==
    [ any |-> <<
          [ title       |-> "Sauna - Recovery Session",
            duration    |-> 20,
            description |-> "Heat exposure for recovery",
            details     |-> << "2-3 rounds of 8-12 min",
                               "Cool shower between rounds",
                               "Hydrate well before and after",
                               "Good for circulation and relaxation",
                               "Best on rest days or after easy workouts" >>,
            strain      |-> << 2, 4 >> ] >> ]

\* the class attributes as the class body creates them
class_catalogs ==
    [ climbing |-> CLIMBING_WORKOUTS, running |-> RUNNING_WORKOUTS,
      gym |-> GYM_WORKOUTS, sauna |-> SAUNA_WORKOUTS ]

\* the greatest draw of the random source for the primary workout;
\* random.choice(options) on the draw u returns options[u mod len(options)]
MaxDraw == 2

\* the outcomes of the random calls of one generate_day_plan: random.random() > 0.5
\* and the draw of each random.choice call (the first call, the call for the
\* secondary workout and the call for the sauna)
RandomOutcomes ==
    [ coin      : BOOLEAN,
      primary   : 0..MaxDraw,
      secondary : 0..(Len(RUNNING_WORKOUTS["easy"]) - 1),
      sauna     : 0..(Len(SAUNA_WORKOUTS["any"]) - 1) ]

random_choice(options, u) == options[(u % Len(options)) + 1]

\* CATALOG.get(intensity, [])
catalog_get(catalog, intensity) == IF intensity \in DOMAIN catalog THEN catalog[intensity] ELSE << >>

\* the catalog list generate_workout selects for an activity
options_for(activity, intensity) ==
    IF activity = "sauna" THEN catalogs.sauna["any"]
    ELSE IF activity = "climbing" THEN catalog_get(catalogs.climbing, intensity)
    ELSE IF activity = "running" THEN catalog_get(catalogs.running, intensity)
    ELSE IF activity = "gym" THEN catalog_get(catalogs.gym, intensity)
    ELSE << >>

\* generate_workout: None for an unknown activity or an empty catalog list
generate_workout(activity, intensity, u) ==
    LET options == options_for(activity, intensity)
        template == random_choice(options, u)
    IN  IF options = << >> THEN None
        ELSE [ activity        |-> activity,
               title           |-> template.title,
               duration_min    |-> template.duration,
               intensity       |-> intensity,
               description     |-> template.description,
               details         |-> template.details,
               strain_estimate |-> template.strain ]

\* the zones with the lowest threshold at 10
zone_of_easy_from_10(recovery_score) ==
    IF recovery_score >= 67 THEN "hard"
    ELSE IF recovery_score >= 34 THEN "moderate"
    ELSE IF recovery_score >= 10 THEN "easy"
    ELSE "rest"

\* Determine intensity zone
zone_of(recovery_score) ==
    IF recovery_score >= 67 THEN "hard"
    ELSE IF recovery_score >= 34 THEN "moderate"
    ELSE IF recovery_score >= 15 THEN "easy"
    ELSE "rest"

\* the rest day with the bounds of its strain estimate exchanged
rest_day_strain_reversed ==
    [ activity        |-> "rest",
      title           |-> "Rest Day",
      duration_min    |-> 0,
      intensity       |-> "rest",
      description     |-> "Full recovery day - no training",
      details         |-> << "Sleep 8+ hours", "Light walking OK",
                             "Focus on nutrition and hydration",
                             "Sauna optional for circulation" >>,
      strain_estimate |-> << 3, 0 >> ]

\* Rest day
rest_day ==
    [ activity        |-> "rest",
      title           |-> "Rest Day",
      duration_min    |-> 0,
      intensity       |-> "rest",
      description     |-> "Full recovery day - no training",
      details         |-> << "Sleep 8+ hours", "Light walking OK",
                             "Focus on nutrition and hydration",
                             "Sauna optional for circulation" >>,
      strain_estimate |-> << 0, 3 >> ]

\* x or y, for workouts
or_else(x, y) == IF x = None THEN y ELSE x

\* the freshness test with two days of rest not counted as fresh
fresh_for_climbing_after_2(days_since_climb, climb_count_7d) ==
    days_since_climb > 2 /\ climb_count_7d < 4

\* the freshness test without the weekly volume
fresh_for_climbing_any_volume(days_since_climb, climb_count_7d) ==
    days_since_climb >= 2

\* Fresh for climbing
fresh_for_climbing(days_since_climb, climb_count_7d) ==
    days_since_climb >= 2 /\ climb_count_7d < 4

\* the climbing logic without the downgrade on the day after climbing
primary_workouts_no_downgrade(zone, days_since_climb, climb_count_7d, r) ==
    IF fresh_for_climbing(days_since_climb, climb_count_7d) THEN
        LET climb_workout == generate_workout("climbing", zone, r.primary)
        IN  IF climb_workout # None THEN << climb_workout >> ELSE << >>
    ELSE IF days_since_climb = 1 THEN
        IF r.coin /\ zone = "hard" THEN << generate_workout("climbing", zone, r.primary) >>
        ELSE << generate_workout("running", zone, r.primary) >>
    ELSE
        IF zone # "easy"
        THEN << or_else(generate_workout("running", zone, r.primary),
                        generate_workout("gym", zone, r.primary)) >>
        ELSE << generate_workout("gym", "easy", r.primary) >>

\* Climbing logic: the list after the primary activity is chosen; a catalog
\* miss leaves no entry in the first branch and a None entry in the others
primary_workouts(zone, days_since_climb, climb_count_7d, r) ==
    IF fresh_for_climbing(days_since_climb, climb_count_7d) THEN
        LET climb_workout == generate_workout("climbing", zone, r.primary)
        IN  IF climb_workout # None THEN << climb_workout >> ELSE << >>
    ELSE IF days_since_climb = 1 THEN
        IF zone = "hard" THEN
            IF r.coin THEN << generate_workout("climbing", "easy", r.primary) >>
            ELSE << generate_workout("running", "moderate", r.primary) >>
        ELSE << generate_workout("running", zone, r.primary) >>
    ELSE
        IF zone # "easy"
        THEN << or_else(generate_workout("running", zone, r.primary),
                        generate_workout("gym", zone, r.primary)) >>
        ELSE << generate_workout("gym", "easy", r.primary) >>

\* the secondary workout on every day of the hard zone
with_secondary_in_hard_zone(ws, zone, recovery_score, r) ==
    IF zone = "hard" /\ Len(ws) = 1 THEN
        LET secondary == generate_workout("running", "easy", r.secondary)
        IN  IF secondary # None
            THEN Append(ws, [secondary EXCEPT !.title = "Optional: " \o secondary.title])
            ELSE ws
    ELSE ws

\* Add secondary workout for high recovery days
with_secondary(ws, zone, recovery_score, r) ==
    IF zone = "hard" /\ Len(ws) = 1 /\ recovery_score >= 75 THEN
        LET secondary == generate_workout("running", "easy", r.secondary)
        IN  IF secondary # None
            THEN Append(ws, [secondary EXCEPT !.title = "Optional: " \o secondary.title])
            ELSE ws
    ELSE ws

\* the sauna added below the hard zone only
with_sauna_below_hard(ws, recovery_score, r) ==
    LET sauna == generate_workout("sauna", "any", r.sauna)
    IN  IF sauna = None \/ recovery_score >= 67 THEN ws
        ELSE IF recovery_score >= 34 THEN
            Append(ws, [sauna EXCEPT !.duration_min = 15,
                                     !.description = "Moderate sauna session for circulation"])
        ELSE
            Append(ws, [sauna EXCEPT !.duration_min = 10,
                                     !.description = "Light sauna to aid recovery"])

\* Always add sauna for recovery - adjust duration based on recovery
with_sauna(ws, recovery_score, r) ==
    LET sauna == generate_workout("sauna", "any", r.sauna)
    IN  IF sauna = None THEN ws
        ELSE IF recovery_score >= 67 THEN
            Append(ws, [sauna EXCEPT !.duration_min = 20,
                                     !.description = "Recovery sauna - great day for heat therapy"])
        ELSE IF recovery_score >= 34 THEN
            Append(ws, [sauna EXCEPT !.duration_min = 15,
                                     !.description = "Moderate sauna session for circulation"])
        ELSE
            Append(ws, [sauna EXCEPT !.duration_min = 10,
                                     !.description = "Light sauna to aid recovery"])

\* [w for w in workouts if w is not None]
not_none(w) == w # None

\* generate_day_plan with the random outcomes r; recent_strain_avg is not read
generate_day_plan(recovery_score, days_since_climb, climb_count_7d, recent_strain_avg, r) ==
    LET zone == zone_of(recovery_score)
        sauna == generate_workout("sauna", "any", r.sauna)
    IN  IF zone = "rest"
        THEN [ zone |-> zone,
               workouts |-> IF sauna # None THEN << rest_day, sauna >> ELSE << rest_day >> ]
        ELSE [ zone |-> zone,
               workouts |-> SelectSeq(
                   with_sauna(with_secondary(primary_workouts(zone, days_since_climb, climb_count_7d, r),
                                             zone, recovery_score, r),
                              recovery_score, r),
                   not_none) ]

\* the object an attribute write on a generated workout lands on: a catalog
\* entry << catalog, key, index >>, or a new object that no catalog holds
NewObject == << >>

\* the template itself handed out as the workout
object_of_template(activity, key, index) == << activity, key, index >>

\* Workout(...) in generate_workout builds a new object from the values of the
\* template options[index] of the catalog list selected for activity and key
object_of(activity, key, index) == NewObject

\* obj.attribute = value, as it acts on the catalog tables; the attributes
\* title, duration_min and description are the template keys title, duration
\* and description
setattr(tables, obj, key, value) ==
    IF obj = NewObject THEN tables
    ELSE [tables EXCEPT ![obj[1]][obj[2]][obj[3]][key] = value]

\* the index random.choice picks on the draw u
choice_index(options, u) == (u % Len(options)) + 1

\* the catalog tables after the attribute writes of one generate_day_plan
catalogs_after_day_plan(recovery_score, days_since_climb, climb_count_7d, r) ==
    LET zone == zone_of(recovery_score)
        ws == primary_workouts(zone, days_since_climb, climb_count_7d, r)
        easy_runs == options_for("running", "easy")
        saunas == options_for("sauna", "any")
        secondary == object_of("running", "easy", choice_index(easy_runs, r.secondary))
        sauna == object_of("sauna", "any", choice_index(saunas, r.sauna))
        t1 == IF zone = "hard" /\ Len(ws) = 1 /\ recovery_score >= 75 /\ easy_runs # << >>
              THEN setattr(catalogs, secondary, "title",
                           "Optional: " \o random_choice(easy_runs, r.secondary).title)
              ELSE catalogs
        duration == IF recovery_score >= 67 THEN 20 ELSE IF recovery_score >= 34 THEN 15 ELSE 10
        description == IF recovery_score >= 67 THEN "Recovery sauna - great day for heat therapy"
                       ELSE IF recovery_score >= 34 THEN "Moderate sauna session for circulation"
                       ELSE "Light sauna to aid recovery"
    IN  IF zone = "rest" \/ saunas = << >> THEN t1
        ELSE setattr(setattr(t1, sauna, "duration", duration), sauna, "description", description)

----------------------------------------------------------------------------
(* Provider data and call arguments the specifications start from          *)

SeqsUpTo(S, n) == UNION { [1..k -> S] : k \in 0..n }

\* the most climbing sessions in a workout list and the longest list of named
\* workouts
MaxWorkouts == 4
MaxNamed == 2

\* the greatest climb_count_7d passed to generate_day_plan directly
MaxClimbCount == 4

RecoveryScores == 0..100

\* every score of the rest zone and around its threshold, and the scores at
\* and next to the other thresholds of generate_day_plan
PlanScores == (0..20) \cup {33, 34, 50, 66, 67, 74, 75, 80, 100}

\* the scores at and next to every threshold of the two components
BoundaryScores == {0, 14, 15, 19, 20, 33, 34, 66, 67, 100}

scored_recovery(recovery_score, hrv, rhr, calibrating) ==
    Val([ score_state |-> Val("SCORED"),
          score |-> Val([ recovery_score     |-> recovery_score,
                          hrv_rmssd_milli    |-> hrv,
                          resting_heart_rate |-> rhr,
                          user_calibrating   |-> calibrating ]) ])

\* no record, a record not yet scored, a scored record without a score or
\* with a null score, and scored records without a recovery_score
OddRecoveries ==
    { None,
      Val([score_state |-> Val("PENDING_SCORE"), score |-> Missing]),
      Val([score_state |-> Val("SCORED"), score |-> Missing]),
      Val([score_state |-> Val("SCORED"), score |-> None]),
      scored_recovery(Missing, Val(45), Val(55), Missing),
      scored_recovery(None, Val(0), Missing, Val(TRUE)) }

scored_sleep(performance) ==
    Val([ score_state |-> Val("SCORED"),
          score |-> Val([ sleep_performance_percentage |-> performance ]) ])

SleepPerformances == {0, 69, 70}

OddSleeps ==
    { Val([score_state |-> Val("PENDING_SCORE"), score |-> Missing]),
      Val([score_state |-> Val("SCORED"), score |-> None]),
      scored_sleep(Missing) }

cycle(score_state, score) == [ score_state |-> Val(score_state), score |-> score ]

scored_cycle(strain) == cycle("SCORED", Val([strain |-> strain, kilojoule |-> Val(9000)]))

\* no cycle, or a hard day after a moderate one
CycleLists == { << >>, << scored_cycle(Val(15)), scored_cycle(Val(10)) >> }

\* a cycle not yet scored, and a scored cycle whose score has no strain
OddCycleLists ==
    { << cycle("PENDING_SCORE", Missing) >>,
      << scored_cycle(Val(15)), scored_cycle(Missing) >> }

workout(sport_name, score_state, score, start) ==
    [ sport_name |-> sport_name, score_state |-> Val(score_state), score |-> score, start |-> start ]

strain_score(strain) == Val([strain |-> strain, kilojoule |-> Val(1500)])

\* a scored climbing session ten hours before the clock's first reading, and
\* one two days before its last reading, with keywords of two categories
RecentSession ==
    workout(Val(RockClimbing), "SCORED", strain_score(Val(8)), Val([local |-> 170, tz |-> "Z"]))
OlderSession ==
    workout(Val(BoulderingRunClub), "SCORED", strain_score(Val(12)), Val([local |-> 137, tz |-> "+02:00"]))

ClimbingSessions == { RecentSession, OlderSession }

\* two sessions whose timestamps carry different UTC offsets: the one in the
\* east has the later text and the earlier instant (155 against 159)
SessionInTheEast ==
    workout(Val(RockClimbing), "SCORED", strain_score(Val(8)), Val([local |-> 157, tz |-> "+02:00"]))
SessionInTheWest ==
    workout(Val(RockClimbing), "SCORED", strain_score(Val(8)), Val([local |-> 154, tz |-> "-05:00"]))

\* up to MaxWorkouts climbing sessions: older sessions, alone or with the
\* recent session before or after them, and the recent session repeated
ClimbingLists ==
    { [i \in 1..k |-> OlderSession] : k \in 0..MaxWorkouts }
    \cup { << RecentSession >> \o [i \in 1..k |-> OlderSession] : k \in 0..(MaxWorkouts - 1) }
    \cup { [i \in 1..k |-> OlderSession] \o << RecentSession >> : k \in 0..(MaxWorkouts - 1) }
    \cup { [i \in 1..MaxWorkouts |-> RecentSession] }

\* records with a field missing, not yet scored, or of another category
MixedWorkouts ==
    ClimbingSessions \cup
    { workout(Val(RockClimbing), "SCORED", strain_score(Val(8)), Missing),
      workout(Val(RockClimbing), "PENDING_SCORE", Missing, Val([local |-> 170, tz |-> "Z"])),
      workout(Val(Yoga), "SCORED", strain_score(Missing), Val([local |-> 160, tz |-> "Z"])),
      workout(Missing, "SCORED", strain_score(Val(5)), Val([local |-> 160, tz |-> "Z"])) }

SportNames ==
    { RockClimbing, BoulderingRunClub, HotTubClimbing, TrailRunning, TreadmillCrossfit,
      Weightlifting, GymSauna, SaunaName, Yoga }

\* a scored workout of every sport name, and three records that are not
\* scored: not yet processed, scored without a score, and not yet processed
\* with a score already attached
NamedWorkouts ==
    { workout(Val(n), "SCORED", strain_score(Val(8)), Val([local |-> 160, tz |-> "Z"])) : n \in SportNames }
    \cup { workout(Val(BoulderingRunClub), "PENDING_SCORE", Missing, Val([local |-> 170, tz |-> "Z"])),
           workout(Val(TreadmillCrossfit), "SCORED", Missing, Val([local |-> 170, tz |-> "Z"])),
           workout(Val(RockClimbing), "PENDING_SCORE", strain_score(Val(3)), Val([local |-> 171, tz |-> "Z"])) }

ClockReadings == {180, 190}

NotCalled == [status |-> "none"]

\* no request has been answered yet
NoResponse == [route |-> "none", status |-> 0]

call_args(recovery_score, days_since_climb, climb_count_7d, recent_strain_avg) ==
    [ recovery_score |-> recovery_score, days_since_climb |-> days_since_climb,
      climb_count_7d |-> climb_count_7d, recent_strain_avg |-> recent_strain_avg ]

InitResults ==
    /\ recommendation = NotCalled
    /\ previous = NotCalled
    /\ called_at = << >>
    /\ workout_categories = NotCalled
    /\ plan = NotCalled
    /\ catalogs = class_catalogs
    /\ generated = NotCalled
    /\ current_workouts = << >>
    /\ response = NoResponse

\* the recommendation engine over every recovery record, the sleep
\* performances at the override's threshold and every climbing load
InitTiers ==
    /\ recovery \in OddRecoveries \cup { scored_recovery(Val(s), Val(45), Val(55), Missing) : s \in BoundaryScores }
    /\ sleep \in { None } \cup { scored_sleep(Val(p)) : p \in SleepPerformances }
    /\ cycles \in CycleLists
    /\ workouts \in ClimbingLists
    /\ now \in ClockReadings
    /\ args = call_args(10, 5, 1, 10)
    /\ InitResults

\* scored records that carry a metric with the value zero
ZeroMetricRecoveries ==
    { scored_recovery(Val(50), Val(0), Val(55), Missing),
      scored_recovery(Val(50), Val(45), Val(0), Missing) }

\* the recommendation engine over records with fields missing, null or zero
InitOdd ==
    /\ recovery \in OddRecoveries \cup ZeroMetricRecoveries
                   \cup { scored_recovery(Val(50), Val(45), Val(55), Missing) }
    /\ sleep \in OddSleeps \cup { None }
    /\ cycles \in OddCycleLists \cup { << >> }
    /\ workouts \in { << w >> : w \in MixedWorkouts }
                   \cup { << >>, << SessionInTheEast, SessionInTheWest >> }
    /\ now \in ClockReadings
    /\ args = call_args(10, 5, 1, 10)
    /\ InitResults

Init == InitTiers \/ InitOdd

\* the plan generator over call arguments of every kind, on a new account
InitPlan ==
    /\ recovery = None
    /\ sleep = None
    /\ cycles = << >>
    /\ workouts = << >>
    /\ now \in ClockReadings
    /\ args \in { call_args(s, d, c, a) : s \in PlanScores, d \in {0, 1, 2, 5},
                                          c \in 0..MaxClimbCount, a \in {0, 10} }
    /\ InitResults

\* the plan generator over arguments of every zone and every climbing branch
InitGenerator ==
    /\ recovery = None
    /\ sleep = None
    /\ cycles = << >>
    /\ workouts = << >>
    /\ now = 180
    /\ args \in { call_args(s, d, c, 10) : s \in {10, 20, 50, 70, 80}, d \in {0, 1, 2},
                                           c \in {1, MaxClimbCount} }
    /\ InitResults

\* the classifier over sport names with keywords of one, two or no category
InitClassify ==
    /\ recovery = scored_recovery(Val(50), Val(45), Val(55), Missing)
    /\ sleep = None
    /\ cycles = << >>
    /\ workouts \in SeqsUpTo(NamedWorkouts, MaxNamed)
    /\ now \in ClockReadings
    /\ args = call_args(10, 5, 1, 10)
    /\ InitResults

\* one recovery score given to both components
InitZones ==
    /\ \E s \in RecoveryScores :
          /\ recovery = scored_recovery(Val(s), Val(45), Val(55), Missing)
          /\ args = call_args(s, 5, 1, 10)
    /\ sleep \in { None, scored_sleep(Val(85)) }
    /\ cycles = << >>
    /\ workouts \in { << >> } \cup { << w >> : w \in ClimbingSessions }
    /\ now \in ClockReadings
    /\ InitResults

----------------------------------------------------------------------------
(* Dashboard routes (app.py)                                               *)

\* the keywords of the climbing test in index and add_to_calendar
route_climbing_keywords ==
    << <<"c","l","i","m","b","i","n","g">>,
       <<"b","o","u","l","d","e","r","i","n","g">> >>

\* recovery_data and recovery_data.get("score_state") == "SCORED" and recovery_data.get("score")
recovery_data_is_scored(r) ==
    r # None /\ r.val.score_state = Val("SCORED") /\ TruthyDict(dict_get(r.val.score))

\* recovery_score of both routes: 0 unless the record is scored; int(None) raises
route_recovery_score(r) ==
    IF ~recovery_data_is_scored(r) THEN Returned(0)
    ELSE LET x == dict_get_default(r.val.score.val.recovery_score, Val(0))
         IN  IF x = None THEN Raised("TypeError") ELSE Returned(x.val)

\* hrv and rhr of index: round(None, 1) and int(None) raise TypeError
index_metrics_raise(r) ==
    /\ recovery_data_is_scored(r)
    /\ \/ r.val.score.val.hrv_rmssd_milli = None
       \/ r.val.score.val.resting_heart_rate = None

\* sleep_perf of index: int(None) raises TypeError
index_sleep_perf_raises(s) ==
    /\ s # None /\ s.val.score_state = Val("SCORED") /\ TruthyDict(dict_get(s.val.score))
    /\ s.val.score.val.sleep_performance_percentage = None

\* the label index shows beside the recovery score
index_intensity(recovery_score) ==
    IF recovery_score >= 67 THEN "Hard"
    ELSE IF recovery_score >= 34 THEN "Moderate"
    ELSE IF recovery_score >= 15 THEN "Easy"
    ELSE "Rest"

\* the loop over workouts_data of both routes from record i on: None.lower()
\* and None.replace raise AttributeError, w["start"] raises KeyError
RECURSIVE route_climbing_load(_, _, _, _, _)
route_climbing_load(ws, i, t, climb_count, days_since_climb) ==
    IF i > Len(ws) THEN Returned([climb_count |-> climb_count, days_since_climb |-> days_since_climb])
    ELSE IF ws[i].sport_name = None THEN Raised("AttributeError")
    ELSE IF ~any_keyword(sport_of(ws[i]), route_climbing_keywords)
    THEN route_climbing_load(ws, i + 1, t, climb_count, days_since_climb)
    ELSE IF ws[i].start = Missing THEN Raised("KeyError")
    ELSE IF ws[i].start = None THEN Raised("AttributeError")
    ELSE LET days == days_between(t, fromisoformat(ws[i].start.val))
         IN  route_climbing_load(ws, i + 1, t, climb_count + 1,
                                 IF days < days_since_climb THEN days ELSE days_since_climb)

\* the value days_since_climb starts from in add_to_calendar, and the value
\* index passes for 999
WeekOfDays == 7

\* the keyword arguments index gives to generate_day_plan
index_plan_args(recovery_score, load) ==
    call_args(recovery_score,
              IF load.days_since_climb < NoRecentClimbing THEN load.days_since_climb ELSE WeekOfDays,
              load.climb_count, 10)

\* the keyword arguments add_to_calendar gives to generate_day_plan
calendar_plan_args(recovery_score, load) ==
    call_args(recovery_score, load.days_since_climb, load.climb_count, 10)

\* the arguments add_to_calendar gives to generate_ics_content
ics_arguments(w) ==
    [ title |-> w.title, description |-> w.description, details |-> w.details,
      duration_min |-> w.duration_min ]

\* workouts[idx]: a negative idx counts from the end, one before the start
\* of the list raises IndexError
list_item(ws, idx) ==
    IF idx >= 0 THEN Returned(ws[idx + 1])
    ELSE IF 0 - idx <= Len(ws) THEN Returned(ws[Len(ws) + idx + 1])
    ELSE Raised("IndexError")

\* the responses of the two routes; a response to /calendar/add is kept
\* with the idx of its request
ServerError(route) == [route |-> route, status |-> 500]
NotFound(idx) == [route |-> "calendar", status |-> 404, idx |-> idx]
Page(recovery_score, ws, warnings) ==
    [ route |-> "index", status |-> 200, recovery_score |-> recovery_score,
      intensity |-> index_intensity(recovery_score), workouts |-> ws, warnings |-> warnings ]
CalendarFile(idx, ics) == [route |-> "calendar", status |-> 200, idx |-> idx, ics |-> ics]

\* the recovery records of a dashboard request: none, one not yet scored,
\* one with a null recovery_score, and scored ones of every generator zone
DashboardScores == {10, 15, 50, 80}

DashboardRecoveries ==
    { None,
      Val([score_state |-> Val("PENDING_SCORE"), score |-> Missing]),
      scored_recovery(None, Val(0), Missing, Val(TRUE)) }
    \cup { scored_recovery(Val(s), Val(45), Val(55), Missing) : s \in DashboardScores }

\* a climbing session the provider has not yet scored, and one without start
UnscoredSession ==
    workout(Val(RockClimbing), "PENDING_SCORE", Missing, Val([local |-> 170, tz |-> "Z"]))
SessionWithoutStart ==
    workout(Val(RockClimbing), "SCORED", strain_score(Val(8)), Missing)

\* no workout, one climbing session, a week full of them, and sessions
\* written with different UTC offsets
DashboardWorkoutLists ==
    { << >>, << RecentSession >>, << OlderSession >>, [i \in 1..MaxWorkouts |-> OlderSession],
      << UnscoredSession >>, << SessionWithoutStart >>,
      << SessionInTheEast, SessionInTheWest >> }

\* the idx parameters of /calendar/add
CalendarIndexes == (0 - 1)..3

\* a signed-in user opens the dashboard
InitDashboard ==
    /\ recovery \in DashboardRecoveries
    /\ sleep = None
    /\ cycles = << >>
    /\ workouts \in DashboardWorkoutLists
    /\ now \in ClockReadings
    /\ args = call_args(10, 5, 1, 10)
    /\ InitResults

----------------------------------------------------------------------------
(* Operations                                                              *)

\* TrainingPlanner.get_todays_recommendation()
GetTodaysRecommendation ==
    /\ recommendation' = get_todays_recommendation(recovery, sleep, cycles, workouts, now)
    /\ previous' = recommendation
    /\ called_at' = << now >> \o (IF called_at = << >> THEN << >> ELSE << called_at[1] >>)
    /\ workout_categories' =
           IF get_recent_strain(cycles).status = "raised" THEN workout_categories
           ELSE get_workouts_by_type(workouts)
    /\ UNCHANGED << recovery, sleep, cycles, workouts, now, args, plan, catalogs, generated,
                    current_workouts, response >>

\* WorkoutGenerator.generate_day_plan(**args)
GenerateDayPlan ==
    \E r \in RandomOutcomes :
        /\ plan' = [status |-> "ok"] @@ generate_day_plan(args.recovery_score, args.days_since_climb,
                                                          args.climb_count_7d, args.recent_strain_avg, r)
        /\ catalogs' = catalogs_after_day_plan(args.recovery_score, args.days_since_climb,
                                                args.climb_count_7d, r)
        /\ UNCHANGED << recovery, sleep, cycles, workouts, now, recommendation, previous, called_at,
                        workout_categories, args, generated, current_workouts, response >>

\* the activity and intensity names given to generate_workout: the names of
\* the catalogs and their keys, and names no catalog has
Activities == {"climbing", "running", "gym", "sauna", "rest", "yoga"}
Intensities == {"easy", "moderate", "hard", "rest", "any"}

\* WorkoutGenerator.generate_workout(activity, intensity), called directly
GenerateWorkout ==
    \E activity \in Activities, intensity \in Intensities, u \in 0..MaxDraw :
        /\ generated' = generate_workout(activity, intensity, u)
        /\ UNCHANGED << recovery, sleep, cycles, workouts, now, recommendation, previous, called_at,
                        workout_categories, args, plan, catalogs, current_workouts, response >>

\* the clock moves on between two calls
Tick ==
    /\ \E t \in ClockReadings : t > now /\ now' = t
    /\ UNCHANGED << recovery, sleep, cycles, workouts, recommendation, previous, called_at,
                    workout_categories, args, plan, catalogs, generated, current_workouts, response >>

\* index(), for a signed-in user, up to the plan it displays; the weekly
\* table and the sleep panel that follow read further provider lists and
\* write nothing but the page.  get_weekly_plan() calls
\* get_todays_recommendation() a second time.
Index ==
    LET score == route_recovery_score(recovery)
        rec == get_todays_recommendation(recovery, sleep, cycles, workouts, now)
        load == route_climbing_load(workouts, 1, now, 0, NoRecentClimbing)
        a == index_plan_args(score.value, load.value)
    IN  /\ UNCHANGED << recovery, sleep, cycles, workouts, now, generated >>
        /\ IF score.status = "raised" \/ index_metrics_raise(recovery)
              \/ index_sleep_perf_raises(sleep)
           THEN /\ response' = ServerError("index")
                /\ UNCHANGED << recommendation, previous, called_at, workout_categories,
                                args, plan, catalogs, current_workouts >>
           ELSE IF rec.status = "raised" \/ load.status = "raised"
           THEN /\ recommendation' = rec
                /\ previous' = recommendation
                /\ called_at' = << now >> \o (IF called_at = << >> THEN << >> ELSE << called_at[1] >>)
                /\ workout_categories' =
                       IF get_recent_strain(cycles).status = "raised" THEN workout_categories
                       ELSE get_workouts_by_type(workouts)
                /\ response' = ServerError("index")
                /\ UNCHANGED << args, plan, catalogs, current_workouts >>
           ELSE /\ args' = a
                /\ recommendation' = rec
                /\ previous' = rec
                /\ called_at' = << now, now >>
                /\ workout_categories' = get_workouts_by_type(workouts)
                /\ \E r \in RandomOutcomes :
                       /\ plan' = [status |-> "ok"] @@
                                  generate_day_plan(a.recovery_score, a.days_since_climb,
                                                    a.climb_count_7d, a.recent_strain_avg, r)
                       /\ catalogs' = catalogs_after_day_plan(a.recovery_score, a.days_since_climb,
                                                               a.climb_count_7d, r)
                /\ current_workouts' = plan'.workouts
                /\ response' = Page(score.value, plan'.workouts, rec.warnings)

\* add_to_calendar(), for a signed-in user
AddToCalendar ==
    LET score == route_recovery_score(recovery)
        load == route_climbing_load(workouts, 1, now, 0, WeekOfDays)
        a == calendar_plan_args(score.value, load.value)
    IN  /\ UNCHANGED << recovery, sleep, cycles, workouts, now, recommendation, previous,
                        called_at, workout_categories, generated, current_workouts >>
        /\ IF score.status = "raised" \/ load.status = "raised"
           THEN /\ response' = ServerError("calendar")
                /\ UNCHANGED << args, plan, catalogs >>
           ELSE /\ args' = a
                /\ \E r \in RandomOutcomes :
                       /\ plan' = [status |-> "ok"] @@
                                  generate_day_plan(a.recovery_score, a.days_since_climb,
                                                    a.climb_count_7d, a.recent_strain_avg, r)
                       /\ catalogs' = catalogs_after_day_plan(a.recovery_score, a.days_since_climb,
                                                               a.climb_count_7d, r)
                /\ \E idx \in CalendarIndexes :
                       LET picked == list_item(plan'.workouts, idx)
                       IN  response' = IF idx >= Len(plan'.workouts) THEN NotFound(idx)
                                       ELSE IF picked.status = "raised" THEN ServerError("calendar")
                                       ELSE CalendarFile(idx, ics_arguments(picked.value))

Next == GetTodaysRecommendation \/ GenerateDayPlan \/ Tick

Spec == Init /\ [][Next]_vars
SpecPlan == InitPlan /\ [][Next]_vars
SpecZones == InitZones /\ [][Next]_vars
SpecClassify == InitClassify /\ [][Next]_vars

\* the generator alone, with generate_workout also called directly
NextGenerator == GenerateDayPlan \/ GenerateWorkout
SpecGenerator == InitGenerator /\ [][NextGenerator]_vars

\* the dashboard: page renders and calendar exports in any order
NextDashboard == Index \/ AddToCalendar
SpecDashboard == InitDashboard /\ [][NextDashboard]_vars

----------------------------------------------------------------------------
(* What the latest calls read and returned                                 *)

RecOk == recommendation.status = "ok"
PlanOk == plan.status = "ok"

\* the recovery_score and sleep_performance the latest call read, None when unknown
InputRecoveryScore ==
    IF has_scored_state(recovery) /\ recovery.val.score.kind = "val"
    THEN dict_get(recovery.val.score.val.recovery_score) ELSE None

InputSleepPerformance ==
    IF has_scored_state(sleep) /\ sleep.val.score.kind = "val"
    THEN dict_get(sleep.val.score.val.sleep_performance_percentage) ELSE None

ScoreIn(lo, hi) == InputRecoveryScore.kind = "val" /\ InputRecoveryScore.val \in lo..hi

\* days_since_climb and climb_count of the latest call that returned
InputDaysSinceClimb == days_since_climbing(workout_categories.value, called_at[1]).value
InputClimbCount == Len(workout_categories.value["climbing"])

SleepUnknownOrGood ==
    InputSleepPerformance.kind = "None" \/
    (InputSleepPerformance.kind = "val" /\ InputSleepPerformance.val >= 70)

day_of(t) == t \div HoursPerDay

----------------------------------------------------------------------------
(* Claims                                                                  *)

\* C1: with a scored recovery_score in [34,66] and a known sleep performance
\* below 70 (0 through 69), the returned intensity is "easy" with strain_target
\* (6, 10), whatever days_since_climb and climb_count are.
C1_SleepOverride ==
    (RecOk /\ ScoreIn(34, 66) /\ InputSleepPerformance.kind = "val" /\ InputSleepPerformance.val < 70)
        => (recommendation.intensity = "easy" /\ recommendation.strain_target = << 6, 10 >>)

\* C2: with days_since_climb >= 2, climb_count < 4 and sleep unknown or >= 70, a
\* recovery_score of 67 yields hard, of 34 yields moderate, and every score in
\* 15..33 (15 included) yields easy.
C2_InclusiveLowerBounds ==
    (RecOk /\ InputDaysSinceClimb >= 2 /\ InputClimbCount < 4 /\ SleepUnknownOrGood)
        => /\ ScoreIn(67, 67) => recommendation.intensity = "hard"
           /\ ScoreIn(34, 34) => recommendation.intensity = "moderate"
           /\ ScoreIn(15, 33) => recommendation.intensity = "easy"

\* the band of the branch the recommendation engine took, read from what it
\* returned: the colour in its first reasoning entry, and rest or easy in red
RecommendationBand ==
    LET s == fmt0(InputRecoveryScore.val)
        first == recommendation.reasoning[1]
    IN  IF first = "Recovery " \o s \o "% (green) - body is ready" THEN "hard"
        ELSE IF first = "Recovery " \o s \o "% (yellow) - moderate readiness" THEN "moderate"
        ELSE IF recommendation.intensity = "rest" THEN "rest"
        ELSE "easy"

\* C3: for every recovery_score in 0..100 the zone generate_day_plan derives
\* from the score is the band of the branch the recommendation engine takes
\* for that score.
C3_SameBands ==
    (RecOk /\ PlanOk /\ InputRecoveryScore = Val(args.recovery_score))
        => plan.zone = RecommendationBand

\* C4: with a scored recovery_score in [67,100], days_since_climb >= 2 and
\* climb_count < 4, the intensity is "hard" and the strain_target (14, 18),
\* whatever the sleep performance and the strain history are.
C4_GreenFreshIsHard ==
    (RecOk /\ ScoreIn(67, 100) /\ InputDaysSinceClimb >= 2 /\ InputClimbCount < 4)
        => (recommendation.intensity = "hard" /\ recommendation.strain_target = << 14, 18 >>)

C4_Witness ==
    /\ RecOk /\ ScoreIn(67, 67) /\ InputDaysSinceClimb = 2 /\ InputClimbCount = 3
    /\ InputSleepPerformance = Val(69) /\ cycles # << >>
    /\ recommendation.intensity = "hard"

\* C5: with a scored recovery_score in [0,14], 0 included, the intensity is
\* "rest", the strain_target (0, 5), and the climbing, running and gym guidance
\* each begin with the blocking marker, whatever sleep and climbing load are.
C5_VeryLowIsRest ==
    (RecOk /\ ScoreIn(0, 14))
        => /\ recommendation.intensity = "rest"
           /\ recommendation.strain_target = << 0, 5 >>
           /\ recommendation.climbing.marker = "cross"
           /\ recommendation.running.marker = "cross"
           /\ recommendation.gym.marker = "cross"

C5_Witness ==
    /\ RecOk /\ ScoreIn(0, 0) /\ InputClimbCount = 4 /\ InputDaysSinceClimb = 0
    /\ InputSleepPerformance = Val(69)
    /\ recommendation.intensity = "rest"

\* C6: for every recovery_score below 15 and any other arguments,
\* generate_day_plan returns exactly two workouts: the fixed "Rest Day" workout
\* (activity rest, duration 0) and then one sauna workout.
C6_RestDayPlan ==
    (PlanOk /\ args.recovery_score < 15)
        => /\ Len(plan.workouts) = 2
           /\ plan.workouts[1].activity = "rest"
           /\ plan.workouts[1].title = "Rest Day"
           /\ plan.workouts[1].duration_min = 0
           /\ plan.workouts[2].activity = "sauna"
           /\ \A i \in 1..Len(plan.workouts) :
                  plan.workouts[i].activity \notin {"climbing", "running", "gym"}

C6_Witness ==
    /\ PlanOk /\ args.recovery_score = 14 /\ args.days_since_climb = 5 /\ args.climb_count_7d = 1
    /\ Len(plan.workouts) = 2 /\ plan.workouts[1].title = "Rest Day"

\* C7: for every recovery_score >= 15 with days_since_climb >= 2 and
\* climb_count_7d < 4, the first workout of the plan is a climbing workout of
\* intensity hard for a score >= 67, moderate for 34..66 and easy for 15..33,
\* for every outcome of the random choices.
C7_FreshClimbsFirst ==
    (PlanOk /\ args.recovery_score >= 15 /\ args.days_since_climb >= 2 /\ args.climb_count_7d < 4)
        => /\ Len(plan.workouts) >= 1
           /\ plan.workouts[1].activity = "climbing"
           /\ plan.workouts[1].intensity =
                  (IF args.recovery_score >= 67 THEN "hard"
                   ELSE IF args.recovery_score >= 34 THEN "moderate" ELSE "easy")

C7_Witness ==
    /\ PlanOk /\ args = call_args(80, 5, 1, 10)
    /\ plan.workouts[1].activity = "climbing" /\ plan.workouts[1].intensity = "hard"
    /\ plan.workouts[1].title = "One-Arm Progressions"

\* the inputs C8 lists: every scored cycle carries a strain, and no workout
\* has a null sport name or a null strain
ListedInputs ==
    /\ \A i \in 1..Len(cycles) : cycle_is_scored(cycles[i]) => cycles[i].score.val.strain.kind = "val"
    /\ \A i \in 1..Len(workouts) :
          /\ workouts[i].sport_name.kind # "None"
          /\ workouts[i].score.kind = "val" => workouts[i].score.val.strain.kind # "None"

\* C8: get_todays_recommendation returns and never raises, for every
\* combination of absent, unscored or scored records with missing or null
\* scores and of workouts with a missing start, strain or sport_name.
C8_NeverRaises == ListedInputs => recommendation.status # "raised"

keywords_by_priority == << climbing_keywords, running_keywords, gym_keywords, sauna_keywords >>
category_by_priority == << "climbing", "running", "gym", "sauna" >>

\* the categories whose keywords the sport name of w contains, as priorities
matched(w) == { j \in 1..4 : any_keyword(sport_of(w), keywords_by_priority[j]) }

listed_in(w, c) ==
    \E k \in 1..Len(workout_categories.value[c]) : workout_categories.value[c][k] = workout_data(w)

\* C10: a scored workout whose lower-cased sport name contains keywords of two
\* or more categories is placed in the earliest of them in the order climbing,
\* running, gym, sauna, and in no other category.
C10_ClassifierPriority ==
    workout_categories.status = "ok" =>
        \A i \in 1..Len(workouts) :
            (~workout_is_skipped(workouts[i]) /\ Cardinality(matched(workouts[i])) >= 2) =>
                LET first == CHOOSE j \in matched(workouts[i]) : \A k \in matched(workouts[i]) : j <= k
                IN  /\ listed_in(workouts[i], category_by_priority[first])
                    /\ \A c \in Categories \ {category_by_priority[first]} : ~listed_in(workouts[i], c)

C10_Witness ==
    /\ workout_categories.status = "ok"
    /\ \E i, j \in 1..Len(workouts) :
          /\ ~workout_is_skipped(workouts[i]) /\ workouts[i].sport_name = Val(BoulderingRunClub)
          /\ listed_in(workouts[i], "climbing")
          /\ ~workout_is_skipped(workouts[j]) /\ workouts[j].sport_name = Val(GymSauna)
          /\ listed_in(workouts[j], "gym")

\* C11: in every returned recommendation the sauna guidance is a function of
\* the returned intensity alone: the recommended text for rest and easy, the
\* optional text for moderate and the skip-or-post-workout text for hard, in
\* every branch of the decision logic.
C11_SaunaFollowsIntensity ==
    RecOk =>
        recommendation.sauna =
            (IF recommendation.intensity \in {"rest", "easy"}
             THEN G("check", "Sauna is a good option for recovery")
             ELSE IF recommendation.intensity = "moderate"
             THEN G("", "Optional - fine if you want it")
             ELSE G("", "Skip or do post-workout only"))

\* a yellow day with enough rest from climbing, made easy by the sleep
\* override alone
C11_Witness ==
    /\ RecOk /\ ScoreIn(34, 66) /\ InputDaysSinceClimb >= 2
    /\ InputSleepPerformance = Val(69)
    /\ recommendation.intensity = "easy"
    /\ recommendation.sauna = G("check", "Sauna is a good option for recovery")

\* the HRV and resting heart rate the scored recovery record carries
InputHrv ==
    IF has_scored_state(recovery) /\ recovery.val.score.kind = "val"
    THEN dict_get(recovery.val.score.val.hrv_rmssd_milli) ELSE None

InputRhr ==
    IF has_scored_state(recovery) /\ recovery.val.score.kind = "val"
    THEN dict_get(recovery.val.score.val.resting_heart_rate) ELSE None

\* the 7-day climbing load entry of the latest call
LoadSummary ==
    LET load == climbing_load_7d(workout_categories.value).value
    IN  "7-day climbing: " \o ToString(load[1]) \o " sessions, " \o fmt1(load[2]) \o " total strain"

\* C12: the last reasoning entry is the 7-day climbing load summary, and when
\* the scored recovery record carries an HRV value and a resting-heart-rate
\* value the two entries before it are the HRV entry and then the resting-HR
\* entry, after every tier, freshness and sleep entry.
C12_MetricsLast ==
    RecOk =>
        LET n == Len(recommendation.reasoning)
        IN  /\ n >= 1
            /\ recommendation.reasoning[n] = LoadSummary
            /\ (InputHrv.kind = "val" /\ InputRhr.kind = "val") =>
                   /\ n >= 3
                   /\ recommendation.reasoning[n - 2] = "HRV: " \o fmt1(InputHrv.val) \o "ms"
                   /\ recommendation.reasoning[n - 1] = "Resting HR: " \o fmt0(InputRhr.val) \o "bpm"

\* C12, amended: the last reasoning entry is the 7-day climbing load summary,
\* and when the scored recovery record carries an HRV value and a
\* resting-heart-rate value that are both not zero, the two entries before it
\* are the HRV entry and then the resting-HR entry, after every tier,
\* freshness and sleep entry.
C12_NonZeroMetricsLast ==
    RecOk =>
        LET n == Len(recommendation.reasoning)
        IN  /\ n >= 1
            /\ recommendation.reasoning[n] = LoadSummary
            /\ (TruthyNum(InputHrv) /\ TruthyNum(InputRhr)) =>
                   /\ n >= 3
                   /\ recommendation.reasoning[n - 2] = "HRV: " \o fmt1(InputHrv.val) \o "ms"
                   /\ recommendation.reasoning[n - 1] = "Resting HR: " \o fmt0(InputRhr.val) \o "bpm"
                   /\ \A i \in 1..(n - 3) :
                          recommendation.reasoning[i] \notin
                              { recommendation.reasoning[n - 2], recommendation.reasoning[n - 1],
                                recommendation.reasoning[n] }

\* a yellow day with the sleep override: the tier entry and the sleep entry,
\* then the two metrics and the load summary
C12_Witness ==
    /\ RecOk /\ ScoreIn(34, 66) /\ InputSleepPerformance = Val(69)
    /\ InputHrv = Val(45) /\ InputRhr = Val(55)
    /\ Len(recommendation.reasoning) = 5
    /\ recommendation.reasoning[2] = "Sleep only 69% - take it easier"
    /\ recommendation.reasoning[3] = "HRV: 45.0ms"
    /\ recommendation.reasoning[4] = "Resting HR: 55bpm"
    /\ InputClimbCount >= 1

\* a pair (min, max) with 0 <= min <= max
StrainRange(p) == Len(p) = 2 /\ 0 <= p[1] /\ p[1] <= p[2]

\* C13: the strain_target of every returned recommendation and the
\* strain_estimate of every workout of a returned day plan, and of every
\* template a plan can take it from, is a pair (min, max) with 0 <= min <= max.
C13_StrainRanges ==
    /\ RecOk => StrainRange(recommendation.strain_target)
    /\ PlanOk => \A i \in 1..Len(plan.workouts) : StrainRange(plan.workouts[i].strain_estimate)
    /\ \A c \in DOMAIN catalogs : \A k \in DOMAIN catalogs[c] : \A i \in 1..Len(catalogs[c][k]) :
           StrainRange(catalogs[c][k][i].strain)

C13_Witness ==
    /\ RecOk /\ recommendation.strain_target = << 0, 5 >>
    /\ PlanOk /\ Len(plan.workouts) = 2
    /\ plan.workouts[1].strain_estimate = << 0, 3 >>
    /\ plan.workouts[2].strain_estimate = << 2, 4 >>

\* C14: every workout of every list generate_day_plan returns has an activity
\* among climbing, running, gym, sauna and rest, an intensity among easy,
\* moderate, hard and rest, and a duration_min >= 0, the sauna workout
\* appended to the plan included.
C14_WorkoutFields ==
    PlanOk =>
        \A i \in 1..Len(plan.workouts) :
            /\ plan.workouts[i].activity \in {"climbing", "running", "gym", "sauna", "rest"}
            /\ plan.workouts[i].intensity \in {"easy", "moderate", "hard", "rest"}
            /\ plan.workouts[i].duration_min >= 0

\* C15: after any sequence of generate_day_plan and generate_workout calls the
\* four catalog tables are as the class body created them: no template title
\* has gained an "Optional: " prefix and the sauna template keeps its duration
\* of 20 and its description.
C15_CatalogsUnchanged ==
    /\ catalogs = class_catalogs
    /\ catalogs.sauna["any"][1].duration = 20
    /\ \A i \in 1..Len(catalogs.running["easy"]) :
           catalogs.running["easy"][i].title = RUNNING_WORKOUTS["easy"][i].title

\* a plan with the retitled bonus run and the re-described sauna was returned, and
\* generate_workout was called directly
C15_Witness ==
    /\ PlanOk /\ generated \notin {NotCalled, None}
    /\ \E i \in 1..Len(plan.workouts) :
           /\ plan.workouts[i].activity = "running"
           /\ \E j \in 1..Len(RUNNING_WORKOUTS["easy"]) :
                  plan.workouts[i].title = "Optional: " \o RUNNING_WORKOUTS["easy"][j].title
    /\ plan.workouts[Len(plan.workouts)].activity = "sauna"
    /\ plan.workouts[Len(plan.workouts)].description = "Recovery sauna - great day for heat therapy"
    /\ catalogs.sauna["any"][1].description = "Heat exposure for recovery"

\* C16: without scored recovery data (no latest recovery, a record that is not
\* SCORED, or a scored record without a recovery_score value) the returned
\* intensity is "moderate", the strain_target (8, 12) and the first reasoning
\* entry the fallback explanation, whatever the sleep performance,
\* days_since_climb and climb_count are.
C16_UnknownIsModerate ==
    (RecOk /\ InputRecoveryScore.kind = "None")
        => /\ recommendation.intensity = "moderate"
           /\ recommendation.strain_target = << 8, 12 >>
           /\ recommendation.reasoning[1] = "No recovery data - defaulting to moderate"

\* a scored record without recovery_score, after a poor night and a fourth
\* climbing session on the same day
C16_Witness ==
    /\ RecOk /\ has_scored_state(recovery) /\ InputRecoveryScore.kind = "None"
    /\ InputSleepPerformance = Val(69)
    /\ InputClimbCount = 4 /\ InputDaysSinceClimb = 0
    /\ recommendation.intensity = "moderate"

\* C17: in the green tier (recovery_score >= 67, days_since_climb >= 0) the
\* intensity is "hard" only when days_since_climb >= 2 and climb_count < 4;
\* when days_since_climb is 0 or 1, or climb_count >= 4, it is "moderate" with
\* strain_target (10, 14).
C17_GreenCaps ==
    (RecOk /\ ScoreIn(67, 100) /\ InputDaysSinceClimb >= 0)
        => /\ recommendation.intensity = "hard"
                  => (InputDaysSinceClimb >= 2 /\ InputClimbCount < 4)
           /\ (InputDaysSinceClimb \in {0, 1} \/ InputClimbCount >= 4)
                  => /\ recommendation.intensity = "moderate"
                     /\ recommendation.strain_target = << 10, 14 >>

\* a green day with a session ten hours ago and fewer than four sessions
C17_Witness ==
    /\ RecOk /\ ScoreIn(100, 100) /\ InputDaysSinceClimb = 0 /\ InputClimbCount = 1
    /\ recommendation.intensity = "moderate"
    /\ recommendation.strain_target = << 10, 14 >>

\* the overuse warning of a week with n climbing sessions
OveruseWarning(n) == "Already " \o ToString(n) \o " climbing sessions this week - watch for overuse"

Contains(seq, x) == \E i \in 1..Len(seq) : seq[i] = x

\* C18: in the green tier (recovery_score >= 67) with climb_count >= 4 the
\* warnings contain the overuse warning naming the session count, for every
\* days_since_climb, 0 and 1 included.
C18_OveruseWarningAlways ==
    (RecOk /\ ScoreIn(67, 100) /\ InputClimbCount >= 4)
        => Contains(recommendation.warnings, OveruseWarning(InputClimbCount))

\* C18, amended: in the green tier (recovery_score >= 67) with climb_count >= 4
\* the warnings contain the overuse warning naming the session count when
\* days_since_climb is neither 0 nor 1; when it is 0 or 1 the freshness branch
\* is taken and no overuse warning is given.
C18_OveruseWarningAfterFreshness ==
    (RecOk /\ ScoreIn(67, 100) /\ InputClimbCount >= 4)
        => (Contains(recommendation.warnings, OveruseWarning(InputClimbCount))
                <=> InputDaysSinceClimb \notin {0, 1})

\* four sessions, the last of them two days ago
C18_Witness ==
    /\ RecOk /\ ScoreIn(67, 100) /\ InputClimbCount = 4 /\ InputDaysSinceClimb = 2
    /\ recommendation.warnings = << OveruseWarning(4) >>
    /\ recommendation.intensity = "moderate"

SickWarning == "Very low recovery - check if you're getting sick or overstressed"

\* C19: in the red tier (scored recovery_score < 34) the result is "rest" with
\* strain_target (0, 5) and the getting-sick warning exactly when
\* recovery_score < 20, and otherwise "easy" with strain_target (4, 8) and no
\* such warning, whatever the sleep performance and the climbing load are.
C19_RedTier ==
    (RecOk /\ InputRecoveryScore.kind = "val" /\ InputRecoveryScore.val < 34)
        => IF InputRecoveryScore.val < 20
           THEN /\ recommendation.intensity = "rest"
                /\ recommendation.strain_target = << 0, 5 >>
                /\ Contains(recommendation.warnings, SickWarning)
           ELSE /\ recommendation.intensity = "easy"
                /\ recommendation.strain_target = << 4, 8 >>
                /\ ~Contains(recommendation.warnings, SickWarning)

\* a score of 20 after a poor night, with four sessions and one of them today
C19_Witness ==
    /\ RecOk /\ ScoreIn(20, 20) /\ InputSleepPerformance = Val(69)
    /\ InputClimbCount = 4 /\ InputDaysSinceClimb = 0
    /\ recommendation.intensity = "easy" /\ recommendation.strain_target = << 4, 8 >>
    /\ recommendation.warnings = << >>

\* C20: in the yellow tier (34 <= recovery_score < 67) with the sleep
\* performance unknown or >= 70 the result is "easy" with strain_target (6, 10)
\* exactly when days_since_climb <= 1, and "moderate" with strain_target
\* (10, 14) otherwise, whatever climb_count is.
C20_YellowTier ==
    (RecOk /\ ScoreIn(34, 66) /\ SleepUnknownOrGood)
        => IF InputDaysSinceClimb <= 1
           THEN recommendation.intensity = "easy" /\ recommendation.strain_target = << 6, 10 >>
           ELSE recommendation.intensity = "moderate" /\ recommendation.strain_target = << 10, 14 >>

\* a yellow day after a good night, four sessions, the last one a day ago
C20_Witness ==
    /\ RecOk /\ ScoreIn(66, 66) /\ InputSleepPerformance = Val(70)
    /\ InputDaysSinceClimb = 1 /\ InputClimbCount = 4
    /\ recommendation.intensity = "easy" /\ recommendation.strain_target = << 6, 10 >>

\* the zone generate_day_plan derived for the latest call
PlanZone == plan.zone

HasActivity(ws, activity) == \E i \in 1..Len(ws) : ws[i].activity = activity

\* the primary workout is a run at the zone's intensity in the hard and the
\* moderate zone (the run lists of these zones are not empty) and an easy gym
\* workout in the easy zone
CrossTrains ==
    /\ ~HasActivity(plan.workouts, "climbing")
    /\ Len(plan.workouts) >= 1
    /\ IF PlanZone = "easy"
       THEN plan.workouts[1].activity = "gym" /\ plan.workouts[1].intensity = "easy"
       ELSE plan.workouts[1].activity = "running" /\ plan.workouts[1].intensity = PlanZone

\* C21: in a plan of a zone other than rest, when the user climbed today
\* (days_since_climb = 0) or the weekly volume is high (climb_count_7d >= 4),
\* there is no climbing workout: the primary workout is a run at the zone's
\* intensity in the hard and the moderate zone and an easy gym workout in the
\* easy zone.
C21_NoClimbingWhenLoaded ==
    (PlanOk /\ PlanZone # "rest" /\ (args.days_since_climb = 0 \/ args.climb_count_7d >= 4))
        => CrossTrains

\* C21, amended: the same, when the user climbed today or the weekly volume is
\* high and the last session was not on the day before (days_since_climb is
\* not 1): the branch for days_since_climb = 1 is taken before the volume is
\* looked at.
C21_NoClimbingUnlessYesterday ==
    (PlanOk /\ PlanZone # "rest" /\ args.days_since_climb # 1
            /\ (args.days_since_climb = 0 \/ args.climb_count_7d >= 4))
        => CrossTrains

\* a hard day after a fourth session five days ago: a hard run, no climbing
C21_Witness ==
    /\ PlanOk /\ PlanZone = "hard" /\ args.days_since_climb = 5 /\ args.climb_count_7d = 4
    /\ plan.workouts[1].activity = "running" /\ plan.workouts[1].intensity = "hard"
    /\ ~HasActivity(plan.workouts, "climbing")

\* the first workouts generate_day_plan can return for the pending arguments,
\* over the outcomes of its random calls, as activity and intensity
PossiblePrimaries ==
    { << w.activity, w.intensity >> :
        w \in { generate_day_plan(args.recovery_score, args.days_since_climb, args.climb_count_7d,
                                  args.recent_strain_avg, r).workouts[1] : r \in RandomOutcomes } }

PlainTitles ==
    { "Rest Day" } \cup
    UNION { UNION { { catalogs[c][k][i].title : i \in 1..Len(catalogs[c][k]) } :
                    k \in DOMAIN catalogs[c] } : c \in DOMAIN catalogs }
OptionalTitles ==
    { "Optional: " \o catalogs.running["easy"][i].title : i \in 1..Len(catalogs.running["easy"]) }

\* the positions of the plan whose title has the "Optional: " prefix
OptionalAt == { i \in 1..Len(plan.workouts) : plan.workouts[i].title \in OptionalTitles }

\* C23: a returned plan has a workout whose title starts with "Optional: "
\* exactly when recovery_score >= 75; there is then exactly one, an easy run,
\* directly after the single primary workout and before the sauna.
C23_BonusRun ==
    PlanOk =>
        /\ PlainTitles \cap OptionalTitles = {}
        /\ \A i \in 1..Len(plan.workouts) : plan.workouts[i].title \in PlainTitles \cup OptionalTitles
        /\ OptionalAt # {} <=> args.recovery_score >= 75
        /\ OptionalAt # {} =>
               /\ OptionalAt = {2}
               /\ Len(plan.workouts) = 3
               /\ plan.workouts[1].activity \in {"climbing", "running", "gym"}
               /\ plan.workouts[2].activity = "running"
               /\ plan.workouts[2].intensity = "easy"
               /\ plan.workouts[3].activity = "sauna"

\* a score of 75 on the day of a session: a hard run, the bonus run, the sauna
C23_Witness ==
    /\ PlanOk /\ args.recovery_score = 75 /\ args.days_since_climb = 0
    /\ OptionalAt = {2}
    /\ plan.workouts[1].activity = "running" /\ plan.workouts[1].intensity = "hard"

\* C24: in every returned plan, for every recovery_score, the sauna workout
\* has duration_min 20 if recovery_score >= 67, 15 if 34 <= recovery_score < 67
\* and 10 otherwise.
C24_SaunaDuration ==
    PlanOk =>
        /\ HasActivity(plan.workouts, "sauna")
        /\ \A i \in 1..Len(plan.workouts) :
               plan.workouts[i].activity = "sauna" =>
                   plan.workouts[i].duration_min =
                       (IF args.recovery_score >= 67 THEN 20
                        ELSE IF args.recovery_score >= 34 THEN 15 ELSE 10)

\* C25: for all arguments and all random outcomes the returned list has no
\* None entry, has 2 or 3 elements, and has exactly one sauna workout, which
\* is its last element.
C25_PlanShape ==
    PlanOk =>
        /\ \A i \in 1..Len(plan.workouts) : plan.workouts[i] # None
        /\ Len(plan.workouts) \in {2, 3}
        /\ { i \in 1..Len(plan.workouts) : plan.workouts[i].activity = "sauna" } = { Len(plan.workouts) }

\* a plan of three on a fully recovered day: climbing, the bonus run, the sauna
C25_Witness ==
    /\ PlanOk /\ Len(plan.workouts) = 3 /\ args.recovery_score = 100
    /\ plan.workouts[3].activity = "sauna" /\ plan.workouts[1].activity = "climbing"

\* the whole days between each climbing-classified record of the latest call
\* and the clock reading of that call
DaysSinceEach ==
    { days_between(called_at[1], fromisoformat(workout_categories.value["climbing"][i].date.val)) :
        i \in 1..Len(workout_categories.value["climbing"]) }

\* C26: _days_since_climbing returns the minimum, over the climbing-classified
\* records, of the whole days between the record's date and now, also when the
\* timestamps carry different UTC-offset notations, and the sentinel 999
\* exactly when there is no climbing-classified record.
C26_MostRecentClimb ==
    RecOk =>
        IF workout_categories.value["climbing"] = << >>
        THEN InputDaysSinceClimb = NoRecentClimbing
        ELSE /\ InputDaysSinceClimb \in DaysSinceEach
             /\ \A d \in DaysSinceEach : InputDaysSinceClimb <= d
             /\ InputDaysSinceClimb # NoRecentClimbing

\* the positions of the provider's workouts that are scored: score_state
\* SCORED and a score
ScoredAt ==
    { i \in 1..Len(workouts) : workouts[i].score_state = Val("SCORED") /\ workouts[i].score.kind = "val" }

\* the record at position i of the provider's list is an entry of a category list
AppearsIn(i, c) ==
    \E k \in 1..Len(workout_categories.value[c]) :
        /\ workout_categories.value[c][k].date = dict_get(workouts[i].start)
        /\ workout_categories.value[c][k].sport = dict_get(workouts[i].sport_name)

\* C27: the category lists partition the scored workouts: every workout with
\* score_state SCORED and a score is in exactly one of the five lists, no
\* unscored workout is in any list, and the sizes of the five lists sum to the
\* number of scored workouts, so that the climbing count and strain include no
\* unscored record.
C27_Partition ==
    workout_categories.status = "ok" =>
        /\ \A i \in ScoredAt : Cardinality({ c \in Categories : listed_in(workouts[i], c) }) = 1
        /\ \A i \in (1..Len(workouts)) \ ScoredAt : \A c \in Categories : ~AppearsIn(i, c)
        /\ SumSeq([j \in 1..5 |->
                     Len(workout_categories.value[<< "climbing", "running", "gym", "sauna", "other" >>[j]])])
               = Cardinality(ScoredAt)
        /\ RecOk => InputClimbCount =
               Cardinality({ i \in ScoredAt : category_of(sport_of(workouts[i])) = "climbing" })

\* a scored gym session after a climbing session that is not yet scored but
\* has a score attached
C27_Witness ==
    /\ workout_categories.status = "ok" /\ RecOk
    /\ Len(workouts) = 2 /\ ScoredAt = {2}
    /\ workouts[1].sport_name = Val(RockClimbing) /\ workouts[1].score.kind = "val"
    /\ Len(workout_categories.value["gym"]) = 1
    /\ InputClimbCount = 0

----------------------------------------------------------------------------
(* The dashboard and the engine over the same provider data                *)

\* a route has handed its arguments to generate_day_plan
RouteReachedPlan(route) == response.status \in {200, 404} /\ response.route = route

\* the branch of the climbing logic in generate_day_plan
climbing_branch(days_since_climb, climb_count_7d) ==
    IF fresh_for_climbing(days_since_climb, climb_count_7d) THEN "fresh for climbing"
    ELSE IF days_since_climb = 1 THEN "climbed yesterday"
    ELSE "cross train"

\* what the Signal Aggregator derives from the provider's workout records
AggregatorCategories == get_workouts_by_type(workouts)
AggregatorDays == days_since_climbing(AggregatorCategories.value, now)
AggregatorCount == Len(AggregatorCategories.value["climbing"])

\* C28: for the same provider workout records, the climbing load a dashboard
\* route (index or add_to_calendar) passes to generate_day_plan agrees with
\* the Signal Aggregator: climb_count_7d is the aggregator's number of
\* climbing records, and the climbing branch chosen from the route's
\* days_since_climb is the branch the aggregator's days since the last climb
\* would choose.
C28_SameClimbingLoad ==
    ((RouteReachedPlan("index") \/ RouteReachedPlan("calendar"))
       /\ AggregatorCategories.status = "ok" /\ AggregatorDays.status = "ok")
        => /\ args.climb_count_7d = AggregatorCount
           /\ climbing_branch(args.days_since_climb, args.climb_count_7d)
                  = climbing_branch(AggregatorDays.value, AggregatorCount)

\* C29: in one render of index the day plan and the recommendation do not
\* contradict each other on rest: the plan is not the Rest Day plan (zone
\* rest) when the recommendation's intensity is moderate or hard, also when
\* the latest recovery is absent or not scored.
C29_NoRestAgainstRecommendation ==
    (response.status = 200 /\ response.route = "index")
        => ~(/\ plan.zone = "rest"
             /\ response.workouts[1].title = "Rest Day"
             /\ recommendation.intensity \in {"moderate", "hard"})

\* C30: with unchanged provider data, a request to /calendar/add?idx=i after
\* a render of index exports the workout the render displayed at position i
\* (title, description, details and duration), for every valid i, and an idx
\* from the plan's length on is answered with 404.
C30_ExportsDisplayedWorkout ==
    (RouteReachedPlan("calendar") /\ current_workouts # << >>)
        => IF response.idx >= Len(current_workouts) THEN response.status = 404
           ELSE response.idx >= 0 =>
                    /\ response.status = 200
                    /\ response.ics = ics_arguments(current_workouts[response.idx + 1])

====
